---- MODULE Spec2Model ----
(***************************************************************************)
(* Model of scripts/create-game-db.py: the conversion of a Docs.json       *)
(* document (a list of native-class records, each with a list of class     *)
(* definitions) into the game database (items, buildings, recipes).        *)
(*                                                                         *)
(* One behaviour is one run of main() on one input document.  Every call   *)
(* of a parse_* handler is one action; the end of each of the four "for"   *)
(* loops, prune_unused_items, the three sorts and the write of the output  *)
(* file are one action each.                                               *)
(*                                                                         *)
(* Representation of the data:                                             *)
(*  - a display name is the sequence of its character codes, so that       *)
(*    str.lower(), str.startswith() and string comparison are computed;    *)
(*  - a building class name is the pair <<prefix, stem>>, so that          *)
(*    str.replace('Build_', 'Desc_') is computed;                          *)
(*  - a class-list field is the sequence of its quoted paths, each a pair  *)
(*    <<package, segment>>; an item-list field is the sequence of its      *)
(*    ItemClass/Amount groups, the amount being a sequence of digits;      *)
(*  - an amount is the rational [num, den]: an int n is [n, 1], and        *)
(*    n / 1000.0 is [n, 1000];                                             *)
(*  - only the fields the handlers' control flow and the cross references  *)
(*    depend on are carried (power consumption, dimensions, rates and      *)
(*    craft times are computed from the definition alone and are left out).*)
(***************************************************************************)
EXTENDS Integers, Sequences, FiniteSets, TLC

VARIABLES
    doc,        \* the input document, as the names of its records
    pc,         \* position of main(): the running pass, or a later step
    n,          \* number of definitions the running pass has handled
    items,      \* game_db['items']
    biomass,    \* game_db['biomass']
    buildings,  \* game_db['buildings']
    recipes,    \* game_db['recipes']
    err,        \* the exception that ended the run, if any
    output,     \* the output file
    log         \* history: the definitions handed to a parser, in call order

vars == <<doc, pc, n, items, biomass, buildings, recipes, err, output, log>>

----------------------------------------------------------------------------
(* The classification tables.                                              *)

RECIPE_CLASSES == {"FGRecipe"}

MANUFACTURER_CLASSES ==
    {"FGBuildableManufacturer", "FGBuildableManufacturerVariablePower"}

POWER_GENERATOR_CLASSES ==
    {"FGBuildableGeneratorFuel", "FGBuildableGeneratorNuclear"}

ITEM_PRODUCER_CLASSES == {"FGBuildableFactorySimpleProducer"}

RESOURCE_EXTRACTOR_CLASSES ==
    {"FGBuildableResourceExtractor", "FGBuildableWaterPump"}

RESOURCE_WELL_ACTIVATOR_CLASS == "FGBuildableFrackingActivator"

RESOURCE_WELL_EXTRACTOR_CLASS == "FGBuildableFrackingExtractor"

RESOURCE_CLASS == "FGResourceDescriptor"

BIOMASS_CLASS == "FGItemDescriptorBiomass"

ITEM_CLASSES ==
    {RESOURCE_CLASS, BIOMASS_CLASS, "FGItemDescriptor",
     "FGItemDescriptorNuclearFuel", "FGAmmoTypeProjectile",
     "FGAmmoTypeInstantHit", "FGAmmoTypeSpreadshot",
     "FGEquipmentDescriptor", "FGConsumableDescriptor"}

FILTER_BUILDINGS ==
    {<<"BP_", "WorkshopComponent_C">>, <<"BP_", "WorkBenchComponent_C">>,
     <<"Build_", "AutomatedWorkBench_C">>,
     <<"", "FGBuildableAutomatedWorkBench">>,
     <<"BP_", "BuildGun_C">>, <<"", "FGBuildGun">>}

FORM_MAPPING ==
    [RF_SOLID |-> "solid", RF_LIQUID |-> "liquid", RF_GAS |-> "gas"]

\* 'Alternate: '
ALTERNATE_PREFIX == <<65, 108, 116, 101, 114, 110, 97, 116, 101, 58, 32>>

RECIPES_FORCE_ALTERNATE == {"Recipe_Alternate_Turbofuel_C"}

ITEM_PRODUCER_OUTPUTS ==
    (<<"Desc_", "TreeGiftProducer_C">> :> [item |-> "Desc_Gift_C", amount |-> 1])

\* The key parse_resource_well_extractor looks its parent up by.
FRACKING_SMASHER_KEY == <<"Desc_", "FrackingSmasher_C">>

\* The generic fuel class parse_fuels fans out over game_db['biomass'].
BIOMASS_FUEL_CLASS == "FGItemDescriptorBiomass"

----------------------------------------------------------------------------
(* Exceptions.                                                             *)

NoError == [type |-> "none"]

\* FORM_MAPPING[definition['mForm']] with an unmapped form code.
FormKeyError(form) == [type |-> "KeyError", what |-> "form", key |-> form]

\* ITEM_PRODUCER_OUTPUTS[building_key] with a key the table lacks.
OutputKeyError(key) == [type |-> "KeyError", what |-> "output", key |-> key]

\* parent['satellite_buildings'] on a building record without that list.
SatelliteKeyError(key) ==
    [type |-> "KeyError", what |-> "satellite_buildings", key |-> key]

ParentNotFound ==
    [type |-> "ValueError", what |-> "parent", key |-> FRACKING_SMASHER_KEY]

MultipleBuildings(recipe_key) ==
    [type |-> "ValueError", what |-> "multiple_buildings", key |-> recipe_key]

ItemNotInDb(item) == [type |-> "ValueError", what |-> "item", key |-> item]

BuildingNotInDb(building) ==
    [type |-> "ValueError", what |-> "building", key |-> building]

----------------------------------------------------------------------------
(* String helpers.                                                         *)

\* str.lower() on ASCII text.
Lower(name) ==
    [k \in 1..Len(name) |->
        IF name[k] >= 65 /\ name[k] <= 90 THEN name[k] + 32 ELSE name[k]]

\* a < b for strings (and for tuples of numbers): lexicographic.
SeqLess(a, b) ==
    \E k \in 1..(Len(b)) :
        /\ \A m \in 1..(k - 1) : m <= Len(a) /\ a[m] = b[m]
        /\ \/ k > Len(a)
           \/ k <= Len(a) /\ a[k] < b[k]

\* name.startswith(prefix)
StartsWith(name, prefix) ==
    /\ Len(name) >= Len(prefix)
    /\ SubSeq(name, 1, Len(prefix)) = prefix

\* ClassName.replace('Build_', 'Desc_')
ReplaceBuildPrefix(class_name) ==
    IF class_name[1] = "Build_" THEN <<"Desc_", class_name[2]>> ELSE class_name

\* int(digits)
RECURSIVE ParseInt(_)
ParseInt(digits) ==
    IF Len(digits) = 0 THEN 0
    ELSE 10 * ParseInt(SubSeq(digits, 1, Len(digits) - 1)) + digits[Len(digits)]

----------------------------------------------------------------------------
(* Lookups.                                                                *)

HasKey(entries, key) == \E k \in 1..Len(entries) : entries[k].key = key

FirstWithKey(entries, key) ==
    CHOOSE k \in 1..Len(entries) :
        /\ entries[k].key = key
        /\ \A m \in 1..(k - 1) : entries[m].key # key

find_item(game_items, item) ==
    IF HasKey(game_items, item)
    THEN [err |-> NoError, entry |-> game_items[FirstWithKey(game_items, item)]]
    ELSE [err |-> ItemNotInDb(item)]

check_building_exists_skipped(game_buildings, building) == NoError

check_building_exists(game_buildings, building) ==
    IF HasKey(game_buildings, building) THEN NoError
    ELSE BuildingNotInDb(building)

\* re.findall(r'"[^.]+\.(.+?)"', class_list): the segment of every quoted path.
parse_class_list(class_list) ==
    [k \in 1..Len(class_list) |-> class_list[k][2]]

\* The form codes of the field (after strip and split) that FORM_MAPPING maps.
parse_forms(forms) ==
    LET known == SelectSeq(forms, LAMBDA form : form \in DOMAIN FORM_MAPPING)
    IN  [k \in 1..Len(known) |-> FORM_MAPPING[known[k]]]

----------------------------------------------------------------------------
(* parse_item                                                              *)

parse_item(native_class, definition, game_items, game_biomass) ==
    IF definition.mForm \notin DOMAIN FORM_MAPPING
    THEN [err |-> FormKeyError(definition.mForm)]
    ELSE
      LET state    == FORM_MAPPING[definition.mForm]
          fluid    == state \in {"liquid", "gas"}
          resource == native_class = RESOURCE_CLASS
          \* the energy value is per liter of fluid; per cubic meter is wanted
          energy   == IF fluid THEN definition.mEnergyValue * 1000
                      ELSE definition.mEnergyValue
          item     == [key         |-> definition.ClassName,
                       name        |-> definition.mDisplayName,
                       resource    |-> resource,
                       state       |-> state,
                       sink_points |-> IF fluid THEN 0
                                       ELSE definition.mResourceSinkPoints,
                       energy_mj   |-> energy]
      IN  [err     |-> NoError,
           items   |-> Append(game_items, item),
           biomass |-> IF native_class = BIOMASS_CLASS /\ energy > 0 /\ ~fluid
                       THEN Append(game_biomass, item)
                       ELSE game_biomass]

----------------------------------------------------------------------------
(* parse_fuels and build_fuel.  The result of build_fuel is                *)
(* [err, emitted, fuel]: emitted is FALSE where the code returns None.     *)
(* The supplemental amount (energy_mj * supplemental_ratio) and            *)
(* burn_time_secs are not carried.                                         *)

\* build_fuel after its energy test: the fuel record and its optional parts.
build_fuel_entry(fuel_item, supplemental_item_key, by_product_item_key, by_product_amount, game_items) ==
    LET fuel == [fuel |-> [item |-> fuel_item.key, amount |-> [num |-> 1, den |-> 1]]]
        has_supplemental == supplemental_item_key # ""
        supplemental == find_item(game_items, supplemental_item_key)
        with_supplemental ==
            IF has_supplemental
            THEN fuel @@ [supplemental_item |-> [item |-> supplemental_item_key]]
            ELSE fuel
        has_by_product == by_product_item_key # "" /\ Len(by_product_amount) # 0
        by_product == find_item(game_items, by_product_item_key)
        with_by_product ==
            IF has_by_product
            THEN with_supplemental @@
                 [by_product |-> [item   |-> by_product_item_key,
                                  \* float(by_product_amount), not converted
                                  amount |-> [num |-> ParseInt(by_product_amount),
                                              den |-> 1]]]
            ELSE with_supplemental
    IN  IF has_supplemental /\ supplemental.err.type # "none"
        THEN [err |-> supplemental.err]
        ELSE IF has_by_product /\ by_product.err.type # "none"
        THEN [err |-> by_product.err]
        ELSE [err |-> NoError, emitted |-> TRUE, fuel |-> with_by_product]

build_fuel_ungated(fuel_item, supplemental_item_key, by_product_item_key, by_product_amount, game_items) ==
    build_fuel_entry(fuel_item, supplemental_item_key, by_product_item_key,
                     by_product_amount, game_items)

build_fuel(fuel_item, supplemental_item_key, by_product_item_key, by_product_amount, game_items) ==
    IF fuel_item.energy_mj = 0
    THEN [err |-> NoError, emitted |-> FALSE]
    ELSE build_fuel_entry(fuel_item, supplemental_item_key, by_product_item_key,
                          by_product_amount, game_items)

\* The inner loop left after its first pass.
fan_out_biomass_first_only(game_biomass, m, fuel, parsed_fuels, game_items) ==
    IF m > Len(game_biomass) THEN [err |-> NoError, fuels |-> parsed_fuels]
    ELSE
      LET parsed_fuel == build_fuel(game_biomass[m],
                                    fuel.mSupplementalResourceClass,
                                    fuel.mByproduct, fuel.mByproductAmount,
                                    game_items)
      IN  IF parsed_fuel.err.type # "none" THEN [err |-> parsed_fuel.err]
          ELSE [err |-> NoError,
                fuels |-> IF parsed_fuel.emitted
                          THEN Append(parsed_fuels, parsed_fuel.fuel)
                          ELSE parsed_fuels]

\* The inner loop of parse_fuels over game_db['biomass'], from entry m on.
RECURSIVE fan_out_biomass(_, _, _, _, _)
fan_out_biomass(game_biomass, m, fuel, parsed_fuels, game_items) ==
    IF m > Len(game_biomass) THEN [err |-> NoError, fuels |-> parsed_fuels]
    ELSE
      LET parsed_fuel == build_fuel(game_biomass[m],
                                    fuel.mSupplementalResourceClass,
                                    fuel.mByproduct, fuel.mByproductAmount,
                                    game_items)
      IN  IF parsed_fuel.err.type # "none" THEN [err |-> parsed_fuel.err]
          ELSE fan_out_biomass(game_biomass, m + 1, fuel,
                               IF parsed_fuel.emitted
                               THEN Append(parsed_fuels, parsed_fuel.fuel)
                               ELSE parsed_fuels,
                               game_items)

\* The loop of parse_fuels over the fuel specs, from spec k on.
RECURSIVE parse_fuels_from(_, _, _, _, _)
parse_fuels_from(fuels, k, parsed_fuels, game_items, game_biomass) ==
    IF k > Len(fuels) THEN [err |-> NoError, fuels |-> parsed_fuels]
    ELSE
      LET fuel == fuels[k]
      IN  IF fuel.mFuelClass = BIOMASS_FUEL_CLASS
          THEN
            LET fanned == fan_out_biomass(game_biomass, 1, fuel, parsed_fuels,
                                          game_items)
            IN  IF fanned.err.type # "none" THEN [err |-> fanned.err]
                ELSE parse_fuels_from(fuels, k + 1, fanned.fuels, game_items,
                                      game_biomass)
          ELSE
            LET fuel_item == find_item(game_items, fuel.mFuelClass)
                parsed_fuel == build_fuel(fuel_item.entry,
                                          fuel.mSupplementalResourceClass,
                                          fuel.mByproduct, fuel.mByproductAmount,
                                          game_items)
            IN  IF fuel_item.err.type # "none" THEN [err |-> fuel_item.err]
                ELSE IF parsed_fuel.err.type # "none" THEN [err |-> parsed_fuel.err]
                ELSE parse_fuels_from(fuels, k + 1,
                                      IF parsed_fuel.emitted
                                      THEN Append(parsed_fuels, parsed_fuel.fuel)
                                      ELSE parsed_fuels,
                                      game_items, game_biomass)

parse_fuels(fuels, game_items, game_biomass) ==
    parse_fuels_from(fuels, 1, <<>>, game_items, game_biomass)

----------------------------------------------------------------------------
(* The building parsers.  Each returns [err, buildings].                   *)

parse_manufacturer_building(definition, game_buildings) ==
    [err |-> NoError,
     buildings |-> Append(game_buildings,
        [type |-> "manufacturer",
         key  |-> ReplaceBuildPrefix(definition.ClassName),
         name |-> definition.mDisplayName])]

parse_power_generator(definition, game_items, game_biomass, game_buildings) ==
    LET fuels == parse_fuels(definition.mFuel, game_items, game_biomass)
    IN  IF fuels.err.type # "none" THEN [err |-> fuels.err]
        ELSE [err |-> NoError,
              buildings |-> Append(game_buildings,
                 [type  |-> "power_generator",
                  key   |-> ReplaceBuildPrefix(definition.ClassName),
                  name  |-> definition.mDisplayName,
                  fuels |-> fuels.fuels])]

parse_item_producer(definition, game_buildings) ==
    LET building_key == ReplaceBuildPrefix(definition.ClassName)
    IN  IF building_key \notin DOMAIN ITEM_PRODUCER_OUTPUTS
        THEN [err |-> OutputKeyError(building_key)]
        ELSE [err |-> NoError,
              buildings |-> Append(game_buildings,
                 [type   |-> "item_producer",
                  key    |-> building_key,
                  name   |-> definition.mDisplayName,
                  output |-> ITEM_PRODUCER_OUTPUTS[building_key]])]

\* The allowed resources computed without the test of item['resource'].
allowed_resources_any_item(definition, game_items) ==
    LET allowed_forms == parse_forms(definition.mAllowedResourceForms)
        forms         == {allowed_forms[k] : k \in 1..Len(allowed_forms)}
        matching      == SelectSeq(game_items, LAMBDA item : item.state \in forms)
    IN  IF definition.mOnlyAllowCertainResources = "True"
        THEN parse_class_list(definition.mAllowedResources)
        ELSE [k \in 1..Len(matching) |-> matching[k].key]

\* The allowed_resources of parse_resource_extractor and parse_resource_well.
allowed_resources_of(definition, game_items) ==
    LET allowed_forms == parse_forms(definition.mAllowedResourceForms)
        forms         == {allowed_forms[k] : k \in 1..Len(allowed_forms)}
        matching      == SelectSeq(game_items,
                            LAMBDA item : item.resource /\ item.state \in forms)
    IN  IF definition.mOnlyAllowCertainResources = "True"
        THEN parse_class_list(definition.mAllowedResources)
        ELSE [k \in 1..Len(matching) |-> matching[k].key]

parse_resource_extractor(definition, game_items, game_buildings) ==
    [err |-> NoError,
     buildings |-> Append(game_buildings,
        [type |-> "resource_extractor",
         key  |-> ReplaceBuildPrefix(definition.ClassName),
         name |-> definition.mDisplayName,
         allowed_resources |-> allowed_resources_of(definition, game_items)])]

parse_resource_well(definition, game_items, game_buildings) ==
    [err |-> NoError,
     buildings |-> Append(game_buildings,
        [type |-> "resource_well",
         key  |-> ReplaceBuildPrefix(definition.ClassName),
         name |-> definition.mDisplayName,
         allowed_resources  |-> allowed_resources_of(definition, game_items),
         satellite_buildings |-> <<>>])]

\* parent['satellite_buildings'].append(satellite), parent = game_buildings[p]
append_satellite_top_level(game_buildings, p, satellite) ==
    Append(game_buildings, satellite)

append_satellite(game_buildings, p, satellite) ==
    [game_buildings EXCEPT ![p].satellite_buildings = Append(@, satellite)]

parse_resource_well_extractor(definition, game_buildings) ==
    LET satellite == [key  |-> ReplaceBuildPrefix(definition.ClassName),
                      name |-> definition.mDisplayName]
    IN  IF ~HasKey(game_buildings, FRACKING_SMASHER_KEY)
        THEN [err |-> ParentNotFound]
        ELSE
          LET p == FirstWithKey(game_buildings, FRACKING_SMASHER_KEY)
          IN  IF "satellite_buildings" \notin DOMAIN game_buildings[p]
              THEN [err |-> SatelliteKeyError(game_buildings[p].key)]
              ELSE [err |-> NoError,
                    buildings |-> append_satellite(game_buildings, p, satellite)]

----------------------------------------------------------------------------
(* parse_recipe and parse_item_list.                                       *)

\* amount = amount / 1000.0 for an item that is not solid
convert_amount_liquid_only(amount, state) ==
    IF state = "liquid" THEN [num |-> amount, den |-> 1000]
    ELSE [num |-> amount, den |-> 1]

convert_amount(amount, state) ==
    IF state # "solid" THEN [num |-> amount, den |-> 1000]
    ELSE [num |-> amount, den |-> 1]

\* The loop of parse_item_list over the matched groups, from group k on.
RECURSIVE parse_item_list_from(_, _, _, _)
parse_item_list_from(value, k, parsed_items, game_items) ==
    IF k > Len(value) THEN [err |-> NoError, items |-> parsed_items]
    ELSE
      LET item   == value[k].ItemClass[2]
          amount == ParseInt(value[k].Amount)
          found  == find_item(game_items, item)
      IN  IF found.err.type # "none" THEN [err |-> found.err]
          ELSE parse_item_list_from(value, k + 1,
                  Append(parsed_items,
                         [item   |-> item,
                          amount |-> convert_amount(amount, found.entry.state)]),
                  game_items)

parse_item_list(value, game_items) ==
    parse_item_list_from(value, 1, <<>>, game_items)

produces_in_unfiltered(definition) == parse_class_list(definition.mProducedIn)

\* [building for building in parse_class_list(...) if building not in FILTER_BUILDINGS]
produces_in_of(definition) ==
    SelectSeq(parse_class_list(definition.mProducedIn),
              LAMBDA building : building \notin FILTER_BUILDINGS)

parse_recipe(definition, game_items, game_buildings, game_recipes) ==
    LET produces_in == produces_in_of(definition)
    IN  IF Len(produces_in) = 0
        THEN [err |-> NoError, recipes |-> game_recipes]
        ELSE IF Len(produces_in) > 1
        THEN [err |-> MultipleBuildings(definition.ClassName)]
        ELSE
          LET building   == ReplaceBuildPrefix(produces_in[1])
              exists     == check_building_exists(game_buildings, building)
              recipe_key == definition.ClassName
              prefixed   == StartsWith(definition.mDisplayName, ALTERNATE_PREFIX)
              display_name ==
                  IF prefixed
                  THEN SubSeq(definition.mDisplayName, Len(ALTERNATE_PREFIX) + 1,
                              Len(definition.mDisplayName))
                  ELSE definition.mDisplayName
              alternate  == recipe_key \in RECIPES_FORCE_ALTERNATE \/ prefixed
              inputs     == parse_item_list(definition.mIngredients, game_items)
              outputs    == parse_item_list(definition.mProduct, game_items)
          IN  IF exists.type # "none" THEN [err |-> exists]
              ELSE IF inputs.err.type # "none" THEN [err |-> inputs.err]
              ELSE IF outputs.err.type # "none" THEN [err |-> outputs.err]
              ELSE [err |-> NoError,
                    recipes |-> Append(game_recipes,
                       [key       |-> recipe_key,
                        name      |-> display_name,
                        alternate |-> alternate,
                        inputs    |-> inputs.items,
                        outputs   |-> outputs.items,
                        building  |-> building])]

----------------------------------------------------------------------------
(* prune_unused_items and the sorts.                                       *)

\* The keys a fuel record adds to used_items.
fuel_used_items(fuel) ==
    {fuel.fuel.item}
    \cup (IF "supplemental" \in DOMAIN fuel THEN {fuel.supplemental.item} ELSE {})
    \cup (IF "by_product" \in DOMAIN fuel THEN {fuel.by_product.item} ELSE {})

used_items(game_buildings, game_recipes) ==
    UNION {IF "fuels" \in DOMAIN game_buildings[b]
           THEN UNION {fuel_used_items(game_buildings[b].fuels[f]) :
                          f \in 1..Len(game_buildings[b].fuels)}
           ELSE {} : b \in 1..Len(game_buildings)}
    \cup UNION {{game_recipes[r].inputs[k].item :
                    k \in 1..Len(game_recipes[r].inputs)}
                \cup {game_recipes[r].outputs[k].item :
                    k \in 1..Len(game_recipes[r].outputs)} :
                r \in 1..Len(game_recipes)}

prune_nothing(game_items, game_buildings, game_recipes) == game_items

prune_unused_items(game_items, game_buildings, game_recipes) ==
    SelectSeq(game_items,
              LAMBDA item : item.key \in used_items(game_buildings, game_recipes))

\* list.sort(key=...): the stable sort of entries, keys[i] the key of entries[i].
StableSort(entries, keys) ==
    LET Before(a, b) ==
            \/ SeqLess(keys[a], keys[b])
            \/ keys[a] = keys[b] /\ a < b
        rank(a) == 1 + Cardinality({b \in 1..Len(entries) : Before(b, a)})
    IN  [p \in 1..Len(entries) |->
            entries[CHOOSE a \in 1..Len(entries) : rank(a) = p]]

item_sort_key_case_sensitive(item) ==
    <<IF item.resource THEN 0 ELSE 1>> \o item.name

\* lambda item: (not item['resource'], item['name'].lower())
item_sort_key(item) == <<IF item.resource THEN 0 ELSE 1>> \o Lower(item.name)

\* lambda machine: machine['name'].lower(), lambda recipe: recipe['name'].lower()
name_sort_key(entry) == Lower(entry.name)

----------------------------------------------------------------------------
(* The input documents.  A document is a sequence of at most MaxDocLen     *)
(* distinct native-class records drawn, in any order, from the records     *)
(* below; the variable doc holds the names of the records, and             *)
(* native_classes is the document itself.                                  *)

MaxDocLen == 4

ResourceItems ==
    [NativeClass |-> RESOURCE_CLASS,
     Classes |-> <<
     [ClassName |-> "Desc_Water_C",
      mDisplayName |-> <<87, 97, 116, 101, 114>>,   \* Water
      mForm |-> "RF_LIQUID", mEnergyValue |-> 0, mResourceSinkPoints |-> 0],
     [ClassName |-> "Desc_Coal_C",
      mDisplayName |-> <<99, 111, 97, 108>>,   \* coal
      mForm |-> "RF_SOLID", mEnergyValue |-> 300, mResourceSinkPoints |-> 3],
     [ClassName |-> "Desc_NitrogenGas_C",
      mDisplayName |-> <<78, 105, 116, 114, 111, 103, 101, 110>>,   \* Nitrogen
      mForm |-> "RF_GAS", mEnergyValue |-> 0, mResourceSinkPoints |-> 0] >>]

BiomassItems ==
    [NativeClass |-> BIOMASS_CLASS,
     Classes |-> <<
     [ClassName |-> "Desc_Leaves_C",
      mDisplayName |-> <<76, 101, 97, 118, 101, 115>>,   \* Leaves
      mForm |-> "RF_SOLID", mEnergyValue |-> 15, mResourceSinkPoints |-> 3],
     [ClassName |-> "Desc_Mycelia_C",
      mDisplayName |-> <<109, 121, 99, 101, 108, 105, 97>>,   \* mycelia
      mForm |-> "RF_SOLID", mEnergyValue |-> 0, mResourceSinkPoints |-> 10],
     [ClassName |-> "Desc_LiquidBiofuel_C",
      mDisplayName |-> <<66, 105, 111, 102, 117, 101, 108>>,   \* Biofuel
      mForm |-> "RF_LIQUID", mEnergyValue |-> 1, mResourceSinkPoints |-> 0],
     [ClassName |-> "Desc_Wood_C",
      mDisplayName |-> <<119, 111, 111, 100>>,   \* wood
      mForm |-> "RF_SOLID", mEnergyValue |-> 100, mResourceSinkPoints |-> 30] >>]

PlainItems ==
    [NativeClass |-> "FGItemDescriptor",
     Classes |-> <<
     [ClassName |-> "Desc_IronIngot_C",
      mDisplayName |-> <<105, 110, 103, 111, 116>>,   \* ingot
      mForm |-> "RF_SOLID", mEnergyValue |-> 0, mResourceSinkPoints |-> 2] >>]

\* An item whose form code FORM_MAPPING does not map.
UnmappedFormItems ==
    [NativeClass |-> "FGEquipmentDescriptor",
     Classes |-> <<
     [ClassName |-> "Desc_Chainsaw_C",
      mDisplayName |-> <<67, 104, 97, 105, 110, 115, 97, 119>>,   \* Chainsaw
      mForm |-> "RF_INVALID", mEnergyValue |-> 0, mResourceSinkPoints |-> 1] >>]

Manufacturers ==
    [NativeClass |-> "FGBuildableManufacturer",
     Classes |-> <<
     [ClassName |-> <<"Build_", "ConstructorMk1_C">>,
      mDisplayName |-> <<67, 111, 110, 115, 116, 114, 117, 99, 116, 111, 114>>], \* Constructor
     [ClassName |-> <<"Build_", "AssemblerMk1_C">>,
      mDisplayName |-> <<97, 115, 115, 101, 109, 98, 108, 101, 114>>]>>]        \* assembler

NoFuelPart == ""

Generators ==
    [NativeClass |-> "FGBuildableGeneratorFuel",
     Classes |-> <<
     [ClassName |-> <<"Build_", "GeneratorBiomass_C">>,
      mDisplayName |-> <<98, 117, 114, 110, 101, 114>>,                        \* burner
      mFuel |-> <<[mFuelClass |-> "Desc_Water_C",
                   mSupplementalResourceClass |-> NoFuelPart,
                   mByproduct |-> NoFuelPart, mByproductAmount |-> <<>>],
                  [mFuelClass |-> BIOMASS_FUEL_CLASS,
                   mSupplementalResourceClass |-> NoFuelPart,
                   mByproduct |-> NoFuelPart, mByproductAmount |-> <<>>],
                  [mFuelClass |-> "Desc_Coal_C",
                   mSupplementalResourceClass |-> NoFuelPart,
                   mByproduct |-> NoFuelPart, mByproductAmount |-> <<>>]>>],
     [ClassName |-> <<"Build_", "GeneratorCoal_C">>,
      mDisplayName |-> <<67, 111, 97, 108, 32, 71, 101, 110, 101, 114, 97, 116, 111, 114>>,                \* Coal Generator
      mFuel |-> <<[mFuelClass |-> "Desc_Coal_C",
                   mSupplementalResourceClass |-> "Desc_Water_C",
                   mByproduct |-> "Desc_IronIngot_C",
                   mByproductAmount |-> <<1, 0>>]>>]>>]

ItemProducers ==
    [NativeClass |-> "FGBuildableFactorySimpleProducer",
     Classes |-> <<
     [ClassName |-> <<"Build_", "TreeGiftProducer_C">>,
      mDisplayName |-> <<71, 105, 102, 116, 32, 84, 114, 101, 101>>]>>]                  \* Gift Tree

Extractors ==
    [NativeClass |-> "FGBuildableResourceExtractor",
     Classes |-> <<
     [ClassName |-> <<"Build_", "MinerMk1_C">>,
      mDisplayName |-> <<77, 105, 110, 101, 114>>,                         \* Miner
      mAllowedResourceForms |-> <<"RF_SOLID">>,
      mOnlyAllowCertainResources |-> "False",
      mAllowedResources |-> <<>>],
     [ClassName |-> <<"Build_", "OilPump_C">>,
      mDisplayName |-> <<111, 105, 108, 32, 80, 117, 109, 112>>,                      \* oil Pump
      mAllowedResourceForms |-> <<"RF_LIQUID">>,
      mOnlyAllowCertainResources |-> "True",
      mAllowedResources |->
          <<<<"/Game/FactoryGame/Resource/Desc_LiquidOil", "Desc_LiquidOil_C">>>>],
     \* an extractor whose key is the one the well extractors look up
     [ClassName |-> <<"Desc_", "FrackingSmasher_C">>,
      mDisplayName |-> <<115, 109, 97, 115, 104, 101, 114>>,        \* smasher
      mAllowedResourceForms |-> <<>>,
      mOnlyAllowCertainResources |-> "False",
      mAllowedResources |-> <<>>]>>]

WellActivators ==
    [NativeClass |-> RESOURCE_WELL_ACTIVATOR_CLASS,
     Classes |-> <<
     [ClassName |-> <<"Build_", "FrackingSmasher_C">>,
      mDisplayName |-> <<80, 114, 101, 115, 115, 117, 114, 105, 122, 101, 114>>,                   \* Pressurizer
      mAllowedResourceForms |-> <<"RF_LIQUID", "RF_GAS", "RF_HEAT">>,
      mOnlyAllowCertainResources |-> "False",
      mAllowedResources |-> <<>>],
     [ClassName |-> <<"Build_", "FrackingSmasherMk2_C">>,
      mDisplayName |-> <<100, 101, 101, 112, 32, 80, 114, 101, 115, 115, 117, 114, 105, 122, 101, 114>>,              \* deep Pressurizer
      mAllowedResourceForms |-> <<"RF_GAS">>,
      mOnlyAllowCertainResources |-> "True",
      mAllowedResources |->
          <<<<"/Game/FactoryGame/Resource/Desc_NitrogenGas", "Desc_NitrogenGas_C">>>>]>>]

WellExtractors ==
    [NativeClass |-> RESOURCE_WELL_EXTRACTOR_CLASS,
     Classes |-> <<
     [ClassName |-> <<"Build_", "FrackingExtractor_C">>,
      mDisplayName |-> <<87, 101, 108, 108, 32, 69, 120, 116, 114, 97, 99, 116, 111, 114>>]>>]             \* Well Extractor

Recipes ==
    [NativeClass |-> "FGRecipe",
     Classes |-> <<
     [ClassName |-> "Recipe_Wire_C",
      mDisplayName |-> <<87, 105, 114, 101>>,                          \* Wire
      mProducedIn |-> <<<<"/Game/FactoryGame/Buildable/ConstructorMk1", <<"Build_", "ConstructorMk1_C">>>>>>,
      mIngredients |-> <<[ItemClass |-> <<"/Game/FactoryGame/Resource/Desc_NitrogenGas", "Desc_NitrogenGas_C">>, Amount |-> <<5, 0, 0>>]>>,
      mProduct |-> <<[ItemClass |-> <<"/Game/FactoryGame/Resource/Desc_Coal", "Desc_Coal_C">>, Amount |-> <<3>>]>>],
     [ClassName |-> "Recipe_Alternate_Cable_C",
      mDisplayName |-> <<65, 108, 116, 101, 114, 110, 97, 116, 101, 58, 32, 99, 97, 98, 108, 101>>,              \* Alternate: cable
      mProducedIn |-> <<<<"/Game/FactoryGame/Buildable/BuildGun", <<"BP_", "BuildGun_C">>>>,
                        <<"/Game/FactoryGame/Buildable/ConstructorMk1", <<"Build_", "ConstructorMk1_C">>>>>>,
      mIngredients |-> <<[ItemClass |-> <<"/Game/FactoryGame/Resource/Desc_Coal", "Desc_Coal_C">>, Amount |-> <<1>>],
                         [ItemClass |-> <<"/Game/FactoryGame/Resource/Desc_Water", "Desc_Water_C">>, Amount |-> <<2, 0, 0, 0>>]>>,
      mProduct |-> <<[ItemClass |-> <<"/Game/FactoryGame/Resource/Desc_IronIngot", "Desc_IronIngot_C">>, Amount |-> <<2>>]>>]>>]

\* A recipe made by hand tools only, and a recipe naming two buildings.
OddRecipes ==
    [NativeClass |-> "FGRecipe",
     Classes |-> <<
     [ClassName |-> "Recipe_Chainsaw_C",
      mDisplayName |-> <<67, 104, 97, 105, 110, 115, 97, 119>>,                      \* Chainsaw
      mProducedIn |-> <<<<"/Game/FactoryGame/Buildable/WorkshopComponent", <<"BP_", "WorkshopComponent_C">>>>,
                        <<"/Script/FactoryGame", <<"", "FGBuildGun">>>>>>,
      mIngredients |-> <<[ItemClass |-> <<"/Game/FactoryGame/Resource/Desc_Unknown", "Desc_Unknown_C">>, Amount |-> <<1>>]>>,
      mProduct |-> <<[ItemClass |-> <<"/Game/FactoryGame/Resource/Desc_Chainsaw", "Desc_Chainsaw_C">>, Amount |-> <<1>>]>>],
     [ClassName |-> "Recipe_Plate_C",
      mDisplayName |-> <<80, 108, 97, 116, 101>>,                         \* Plate
      mProducedIn |-> <<<<"/Game/FactoryGame/Buildable/ConstructorMk1", <<"Build_", "ConstructorMk1_C">>>>,
                        <<"/Game/FactoryGame/Buildable/SmelterMk1", <<"Build_", "SmelterMk1_C">>>>>>,
      mIngredients |-> <<[ItemClass |-> <<"/Game/FactoryGame/Resource/Desc_IronIngot", "Desc_IronIngot_C">>, Amount |-> <<3>>]>>,
      mProduct |-> <<[ItemClass |-> <<"/Game/FactoryGame/Resource/Desc_IronIngot", "Desc_IronIngot_C">>, Amount |-> <<2>>]>>]>>]

RecordNames ==
    {"ResourceItems", "BiomassItems", "PlainItems", "UnmappedFormItems",
     "Manufacturers", "Generators", "ItemProducers", "Extractors",
     "WellActivators", "WellExtractors", "Recipes", "OddRecipes"}

RecordNamed(name) ==
    CASE name = "ResourceItems" -> ResourceItems
      [] name = "BiomassItems" -> BiomassItems
      [] name = "PlainItems" -> PlainItems
      [] name = "UnmappedFormItems" -> UnmappedFormItems
      [] name = "Manufacturers" -> Manufacturers
      [] name = "Generators" -> Generators
      [] name = "ItemProducers" -> ItemProducers
      [] name = "Extractors" -> Extractors
      [] name = "WellActivators" -> WellActivators
      [] name = "WellExtractors" -> WellExtractors
      [] name = "Recipes" -> Recipes
      [] name = "OddRecipes" -> OddRecipes

\* Docs.json lists a native-class record once.
Docs ==
    UNION {{d \in [1..len -> RecordNames] :
               \A i, j \in 1..len : i # j => d[i] # d[j]} : len \in 0..MaxDocLen}

----------------------------------------------------------------------------
(* main(): the four passes over native_classes, then prune, sort, write.   *)

ParsePasses == {"items", "buildings", "satellites", "recipes"}

BUILDING_CLASSES ==
    MANUFACTURER_CLASSES \cup POWER_GENERATOR_CLASSES \cup ITEM_PRODUCER_CLASSES
    \cup RESOURCE_EXTRACTOR_CLASSES \cup {RESOURCE_WELL_ACTIVATOR_CLASS}

\* A single loop that hands every record to its parser as it comes.
PassClassesSingleLoop(pass) ==
    IF pass = "items"
    THEN ITEM_CLASSES \cup BUILDING_CLASSES \cup {RESOURCE_WELL_EXTRACTOR_CLASS}
         \cup RECIPE_CLASSES
    ELSE {}

\* The native classes the "if" of each pass selects.
PassClasses(pass) ==
    CASE pass = "items"      -> ITEM_CLASSES
      [] pass = "buildings"  -> BUILDING_CLASSES
      [] pass = "satellites" -> {RESOURCE_WELL_EXTRACTOR_CLASS}
      [] pass = "recipes"    -> RECIPE_CLASSES
      [] OTHER               -> {}

\* The step of main() that follows each step.
NextStep(step) ==
    CASE step = "items"      -> "buildings"
      [] step = "buildings"  -> "satellites"
      [] step = "satellites" -> "recipes"
      [] step = "recipes"    -> "prune"
      [] step = "prune"      -> "sort"
      [] step = "sort"       -> "write"
      [] step = "write"      -> "done"

\* native_class['Classes'] of record i, each definition with its place.
DefinitionsOf(records, i) ==
    [j \in 1..Len(records[i].Classes) |->
        [NativeClass |-> records[i].NativeClass,
         definition  |-> records[i].Classes[j],
         at          |-> <<i, j>>]]

\* The definitions the nested loops of a pass reach, in loop order.
RECURSIVE PendingFrom(_, _, _)
PendingFrom(records, i, classes) ==
    IF i > Len(records) THEN <<>>
    ELSE (IF records[i].NativeClass \in classes
          THEN DefinitionsOf(records, i) ELSE <<>>)
         \o PendingFrom(records, i + 1, classes)

\* native_classes = json.load(df)
native_classes == [i \in 1..Len(doc) |-> RecordNamed(doc[i])]

Pending(pass) == PendingFrom(native_classes, 1, PassClasses(pass))

\* The definition the running loop is at.
Current == Pending(pc)[n + 1]

AtDefinitionOf(classes) ==
    /\ pc \in ParsePasses
    /\ n < Len(Pending(pc))
    /\ Current.NativeClass \in classes

NoOutput == [written |-> FALSE]

\* An exception handler that reports the error and goes on to the next record.
RaiseAndContinue(e) == pc' = pc /\ n' = n + 1 /\ err' = e

\* An exception leaves main(): the run ends.
Raise(e) == pc' = "failed" /\ n' = n /\ err' = e

\* The parser returns and the loop moves on.
Return == pc' = pc /\ n' = n + 1 /\ err' = err

Init ==
    /\ doc \in Docs
    /\ pc = "items"
    /\ n = 0
    /\ items = <<>>
    /\ biomass = <<>>
    /\ buildings = <<>>
    /\ recipes = <<>>
    /\ err = NoError
    /\ output = NoOutput
    /\ log = <<>>

ParseItem ==
    /\ AtDefinitionOf(ITEM_CLASSES)
    /\ log' = Append(log, Current.at)
    /\ LET r == parse_item(Current.NativeClass, Current.definition, items, biomass)
       IN  IF r.err.type # "none"
           THEN Raise(r.err) /\ UNCHANGED <<items, biomass>>
           ELSE Return /\ items' = r.items /\ biomass' = r.biomass
    /\ UNCHANGED <<doc, buildings, recipes, output>>

\* A building parser's result r: the raise, or the new buildings list.
BuildingParsed(r) ==
    /\ log' = Append(log, Current.at)
    /\ IF r.err.type # "none"
       THEN Raise(r.err) /\ UNCHANGED buildings
       ELSE Return /\ buildings' = r.buildings
    /\ UNCHANGED <<doc, items, biomass, recipes, output>>

ParseManufacturerBuilding ==
    /\ AtDefinitionOf(MANUFACTURER_CLASSES)
    /\ BuildingParsed(parse_manufacturer_building(Current.definition, buildings))

ParsePowerGenerator ==
    /\ AtDefinitionOf(POWER_GENERATOR_CLASSES)
    /\ BuildingParsed(parse_power_generator(Current.definition, items, biomass,
                                            buildings))

ParseItemProducer ==
    /\ AtDefinitionOf(ITEM_PRODUCER_CLASSES)
    /\ BuildingParsed(parse_item_producer(Current.definition, buildings))

ParseResourceExtractor ==
    /\ AtDefinitionOf(RESOURCE_EXTRACTOR_CLASSES)
    /\ BuildingParsed(parse_resource_extractor(Current.definition, items, buildings))

ParseResourceWell ==
    /\ AtDefinitionOf({RESOURCE_WELL_ACTIVATOR_CLASS})
    /\ BuildingParsed(parse_resource_well(Current.definition, items, buildings))

ParseResourceWellExtractor ==
    /\ AtDefinitionOf({RESOURCE_WELL_EXTRACTOR_CLASS})
    /\ BuildingParsed(parse_resource_well_extractor(Current.definition, buildings))

ParseRecipe ==
    /\ AtDefinitionOf(RECIPE_CLASSES)
    /\ log' = Append(log, Current.at)
    /\ LET r == parse_recipe(Current.definition, items, buildings, recipes)
       IN  IF r.err.type # "none"
           THEN Raise(r.err) /\ UNCHANGED recipes
           ELSE Return /\ recipes' = r.recipes
    /\ UNCHANGED <<doc, items, biomass, buildings, output>>

\* The loop of a pass is exhausted: main() goes on to the next pass.
EndOfPass ==
    /\ pc \in ParsePasses
    /\ n = Len(Pending(pc))
    /\ pc' = NextStep(pc)
    /\ n' = 0
    /\ UNCHANGED <<doc, items, biomass, buildings, recipes, err, output, log>>

PruneUnusedItems ==
    /\ pc = "prune"
    /\ items' = prune_unused_items(items, buildings, recipes)
    /\ pc' = NextStep(pc)
    /\ UNCHANGED <<doc, n, biomass, buildings, recipes, err, output, log>>

\* The three sorts and del game_db['biomass'].
SortCollections ==
    /\ pc = "sort"
    /\ items' = StableSort(items, [i \in 1..Len(items) |-> item_sort_key(items[i])])
    /\ buildings' = StableSort(buildings, [i \in 1..Len(buildings) |-> name_sort_key(buildings[i])])
    /\ recipes' = StableSort(recipes, [i \in 1..Len(recipes) |-> name_sort_key(recipes[i])])
    /\ biomass' = <<>>
    /\ pc' = NextStep(pc)
    /\ UNCHANGED <<doc, n, err, output, log>>

\* open(args.output_file, 'w') and json.dump(game_db, output_handle)
WriteOutput ==
    /\ pc = "write"
    /\ output' = [written |-> TRUE, items |-> items, buildings |-> buildings,
                  recipes |-> recipes]
    /\ pc' = NextStep(pc)
    /\ UNCHANGED <<doc, n, items, biomass, buildings, recipes, err, log>>

Next ==
    \/ ParseItem
    \/ ParseManufacturerBuilding
    \/ ParsePowerGenerator
    \/ ParseItemProducer
    \/ ParseResourceExtractor
    \/ ParseResourceWell
    \/ ParseResourceWellExtractor
    \/ ParseRecipe
    \/ EndOfPass
    \/ PruneUnusedItems
    \/ SortCollections
    \/ WriteOutput

Spec == Init /\ [][Next]_vars

----------------------------------------------------------------------------
(* Vocabulary of the properties.                                           *)

ItemKeys == {items[k].key : k \in 1..Len(items)}

\* The item keys a fuel record of a generator names, in its three roles.
FuelRoleKeys(fuel) ==
    {fuel.fuel.item}
    \cup (IF "supplemental_item" \in DOMAIN fuel
          THEN {fuel.supplemental_item.item} ELSE {})
    \cup (IF "by_product" \in DOMAIN fuel THEN {fuel.by_product.item} ELSE {})

\* The item keys some recipe or some generator fuel entry of the database names.
ReferencedKeys(game_buildings, game_recipes) ==
    UNION {IF game_buildings[b].type = "power_generator"
           THEN UNION {FuelRoleKeys(game_buildings[b].fuels[f]) :
                          f \in 1..Len(game_buildings[b].fuels)}
           ELSE {} : b \in 1..Len(game_buildings)}
    \cup UNION {{game_recipes[r].inputs[k].item :
                    k \in 1..Len(game_recipes[r].inputs)}
                \cup {game_recipes[r].outputs[k].item :
                    k \in 1..Len(game_recipes[r].outputs)} :
                r \in 1..Len(game_recipes)}

Pruned == pc \in {"sort", "write", "done"}

\* The number of item definitions of the document.
ItemDefinitionCount == Len(PendingFrom(native_classes, 1, ITEM_CLASSES))

\* The entries of seq at the places in S, in order.
Restrict(seq, S) ==
    [k \in 1..Cardinality(S) |->
        seq[CHOOSE i \in S : Cardinality({j \in S : j <= i}) = k]]

\* C1: after prune_unused_items has run, every item key that a recipe (input
\* or output) or a generator fuel entry (fuel, supplemental or by-product)
\* names is still the key of an item of the items list.
C1_ReferencedItemsSurvivePrune ==
    Pruned => ReferencedKeys(buildings, recipes) \subseteq ItemKeys

\* C8: prune_unused_items only removes items (what is left is the old list
\* with some entries taken out, none added, repeated or changed), and every
\* item left is named by at least one recipe or generator fuel entry.
C8_PruneKeepsOnlyReferenced ==
    [][pc = "prune" =>
          /\ \E S \in SUBSET (1..Len(items)) : items' = Restrict(items, S)
          /\ \A k \in 1..Len(items') :
                items'[k].key \in ReferencedKeys(buildings', recipes')]_vars

\* A run that pruned some items away and kept others.
C8_Witness ==
    /\ Pruned
    /\ Len(items) > 0
    /\ Len(items) < ItemDefinitionCount

\* The places <<i, j>> of the definitions of the document whose native
\* class is in classes.
PlacesOf(classes) ==
    LET defs == PendingFrom(native_classes, 1, classes)
    IN  {defs[k].at : k \in 1..Len(defs)}

\* The native class of the p-th definition handed to a parser.
LoggedClass(p) == native_classes[log[p][1]].NativeClass

LoggedBefore(p) == {log[q] : q \in 1..(p - 1)}

\* seq is non-decreasing in Key.
NonDecreasing(keys) ==
    \A a, b \in 1..Len(keys) : a < b => ~SeqLess(keys[b], keys[a])

\* (not resource, lower-cased name), False before True
ResourceThenName(item) == <<IF item.resource THEN 0 ELSE 1>> \o Lower(item.name)

LowerName(entry) == Lower(entry.name)

\* C2: every recipe of the recipes list names a building that is the key of
\* a building of the buildings list, and every item key of its inputs and
\* outputs is the key of an item of the items list; so no recipe record that
\* breaks either condition is ever appended.
C2_RecipeReferencesResolve ==
    \A r \in 1..Len(recipes) :
        /\ \E b \in 1..Len(buildings) : buildings[b].key = recipes[r].building
        /\ \A k \in 1..Len(recipes[r].inputs) :
              recipes[r].inputs[k].item \in ItemKeys
        /\ \A k \in 1..Len(recipes[r].outputs) :
              recipes[r].outputs[k].item \in ItemKeys

\* A finished run with both recipes of the Recipes record in the database.
C2_Witness ==
    /\ pc = "done"
    /\ Len(recipes) = 2
    /\ \E r \in 1..2 : Len(recipes[r].inputs) = 2

\* C3: whatever the order of the records in the document, a building is
\* parsed only after every item definition, a well extractor only after
\* every building of the second pass, and a recipe only after every
\* building and every well extractor.
C3_StrictStaging ==
    \A p \in 1..Len(log) :
        /\ LoggedClass(p) \in BUILDING_CLASSES
              => PlacesOf(ITEM_CLASSES) \subseteq LoggedBefore(p)
        /\ LoggedClass(p) = RESOURCE_WELL_EXTRACTOR_CLASS
              => PlacesOf(ITEM_CLASSES \cup BUILDING_CLASSES) \subseteq LoggedBefore(p)
        /\ LoggedClass(p) \in RECIPE_CLASSES
              => PlacesOf(ITEM_CLASSES \cup BUILDING_CLASSES
                          \cup {RESOURCE_WELL_EXTRACTOR_CLASS}) \subseteq LoggedBefore(p)

\* A document that lists a recipe record first, then a well extractor, a
\* well activator and the items last, with a recipe already parsed.
C3_Witness ==
    /\ Len(doc) = 4
    /\ native_classes[1].NativeClass \in RECIPE_CLASSES
    /\ native_classes[2].NativeClass = RESOURCE_WELL_EXTRACTOR_CLASS
    /\ native_classes[3].NativeClass = RESOURCE_WELL_ACTIVATOR_CLASS
    /\ native_classes[4].NativeClass \in ITEM_CLASSES
    /\ err.type = "none"
    /\ \E p \in 1..Len(log) : LoggedClass(p) \in RECIPE_CLASSES

\* C4: a run that raised has written no output, and the output is written
\* only by a run that raised nothing, parsed every definition of the four
\* passes, pruned the items and sorted the three lists.
C4_NoOutputAfterError ==
    /\ err.type # "none" => pc = "failed" /\ ~output.written
    /\ pc = "failed" => err.type # "none" /\ ~output.written
    /\ output.written =>
          /\ pc = "done"
          /\ err.type = "none"
          /\ PlacesOf(ITEM_CLASSES \cup BUILDING_CLASSES
                      \cup {RESOURCE_WELL_EXTRACTOR_CLASS} \cup RECIPE_CLASSES)
                = {log[q] : q \in 1..Len(log)}
          /\ output.items = items
          /\ output.buildings = buildings
          /\ output.recipes = recipes
          /\ \A k \in 1..Len(items) :
                items[k].key \in ReferencedKeys(buildings, recipes)
          /\ NonDecreasing([i \in 1..Len(items) |-> ResourceThenName(items[i])])
          /\ NonDecreasing([i \in 1..Len(buildings) |-> LowerName(buildings[i])])
          /\ NonDecreasing([i \in 1..Len(recipes) |-> LowerName(recipes[i])])

\* A run that failed in the last pass, on a recipe naming an unknown item,
\* after items and buildings had been parsed.
C4_Witness ==
    /\ pc = "failed"
    /\ err.type = "ValueError" /\ err.what = "item"
    /\ Len(items) > 0
    /\ Len(buildings) > 0
    /\ LoggedClass(Len(log)) \in RECIPE_CLASSES

\* The step is a call of parse_recipe.
RecipeParsed == AtDefinitionOf(RECIPE_CLASSES) /\ log' # log

\* The step is a call of parse_resource_well_extractor.
WellExtractorParsed == AtDefinitionOf({RESOURCE_WELL_EXTRACTOR_CLASS}) /\ log' # log

\* The producing buildings a recipe definition names, the tools left out.
ProducersOf(definition) ==
    SelectSeq([k \in 1..Len(definition.mProducedIn) |-> definition.mProducedIn[k][2]],
              LAMBDA building : building \notin FILTER_BUILDINGS)

\* A class name with Build_ turned into Desc_.
DescKey(class_name) ==
    IF class_name[1] = "Build_" THEN <<"Desc_", class_name[2]>> ELSE class_name

BuildingKnown(key) == \E b \in 1..Len(buildings) : buildings[b].key = key

\* C5: parse_recipe decides by the number of producing buildings left once
\* the tools are filtered out.  None: items, buildings and recipes stay as
\* they are and nothing is raised.  More than one: a fatal error naming the
\* recipe key, nothing appended.  Exactly one: the recipe is appended only if
\* the building key, with Build_ turned into Desc_, is the key of a parsed
\* building; otherwise a fatal error.
C5_ProducingBuildingPolicy ==
    [][RecipeParsed =>
          LET definition == Current.definition
              producers  == ProducersOf(definition)
          IN  /\ Len(producers) = 0 =>
                    /\ UNCHANGED <<items, buildings, recipes, err>>
                    /\ pc' = pc
              /\ Len(producers) > 1 =>
                    /\ pc' = "failed"
                    /\ err' = [type |-> "ValueError", what |-> "multiple_buildings",
                               key |-> definition.ClassName]
                    /\ UNCHANGED <<items, buildings, recipes>>
              /\ Len(producers) = 1 =>
                    /\ recipes' # recipes => BuildingKnown(DescKey(producers[1]))
                    /\ ~BuildingKnown(DescKey(producers[1])) =>
                          /\ pc' = "failed"
                          /\ err' = [type |-> "ValueError", what |-> "building",
                                     key |-> DescKey(producers[1])]
                          /\ UNCHANGED <<items, buildings, recipes>>]_vars

\* The Constructor is parsed, the tool-only recipe was dropped without an
\* error, and the next recipe, naming two buildings, ended the run.
C5_Witness ==
    /\ pc = "failed"
    /\ err.type = "ValueError" /\ err.what = "multiple_buildings"
    /\ err.key = "Recipe_Plate_C"
    /\ BuildingKnown(<<"Desc_", "ConstructorMk1_C">>)
    /\ recipes = <<>>
    /\ Len(log) >= 2
    /\ LoggedClass(Len(log) - 1) \in RECIPE_CLASSES

\* The satellite record of a well extractor definition.
SatelliteOf(definition) ==
    [key |-> DescKey(definition.ClassName), name |-> definition.mDisplayName]

\* buildings' is buildings with satellite appended to the satellite list of
\* building p, and nothing else changed.
AttachedTo(p, satellite) ==
    /\ Len(buildings') = Len(buildings)
    /\ \A q \in 1..Len(buildings) :
          IF q = p
          THEN /\ "satellite_buildings" \in DOMAIN buildings[q]
               /\ buildings'[q] =
                     [buildings[q] EXCEPT !.satellite_buildings = Append(@, satellite)]
          ELSE buildings'[q] = buildings[q]

\* The first building whose key is the fixed parent key.
FirstSmasher ==
    CHOOSE p \in 1..Len(buildings) :
        /\ buildings[p].key = FRACKING_SMASHER_KEY
        /\ \A q \in 1..(p - 1) : buildings[q].key # FRACKING_SMASHER_KEY

\* Every building of the list is a top-level building record, and a list of
\* satellites is held by resource wells only.
SatellitesInsideWells(game_buildings) ==
    \A b \in 1..Len(game_buildings) :
        /\ "type" \in DOMAIN game_buildings[b]
        /\ "satellite_buildings" \in DOMAIN game_buildings[b]
              => game_buildings[b].type = "resource_well"

\* C6 as stated: parsing a well extractor appends exactly one satellite to
\* the satellite list of the building whose key is Desc_FrackingSmasher_C
\* and adds no top-level building; with no such building the run fails and
\* no building is modified; satellites sit inside resource wells only.
C6_SatelliteAttachedToParentKey ==
    [][/\ WellExtractorParsed =>
             IF BuildingKnown(FRACKING_SMASHER_KEY)
             THEN /\ \E p \in 1..Len(buildings) :
                        /\ buildings[p].key = FRACKING_SMASHER_KEY
                        /\ AttachedTo(p, SatelliteOf(Current.definition))
                  /\ pc' = pc
             ELSE pc' = "failed" /\ buildings' = buildings
       /\ SatellitesInsideWells(buildings')]_vars

\* C6, amended: the satellite is appended to the first building with the
\* key Desc_FrackingSmasher_C when that building is a resource well; with no
\* building of that key, or the first of them not a resource well, the run
\* fails and no building is modified; satellites sit inside resource wells
\* only.
C6_SatelliteAttachedToFirstWell ==
    [][/\ WellExtractorParsed =>
             IF /\ BuildingKnown(FRACKING_SMASHER_KEY)
                /\ buildings[FirstSmasher].type = "resource_well"
             THEN /\ AttachedTo(FirstSmasher, SatelliteOf(Current.definition))
                  /\ pc' = pc
                  /\ err' = err
             ELSE /\ pc' = "failed"
                  /\ err'.type # "none"
                  /\ buildings' = buildings
       /\ SatellitesInsideWells(buildings')]_vars

\* A finished run whose resource well holds one satellite, with a second
\* building of the same key that is no resource well listed after it.
C6_Witness ==
    /\ pc = "done"
    /\ \E b \in 1..Len(buildings) :
          /\ buildings[b].type = "resource_well"
          /\ buildings[b].key = FRACKING_SMASHER_KEY
          /\ Len(buildings[b].satellite_buildings) = 1
          /\ buildings[b].satellite_buildings[1].key = <<"Desc_", "FrackingExtractor_C">>
    /\ \E b \in 1..Len(buildings) :
          /\ buildings[b].type # "resource_well"
          /\ buildings[b].key = FRACKING_SMASHER_KEY

\* C7: no fuel entry of a power generator names a fuel item whose energy_mj
\* is 0.
C7_NoZeroEnergyFuel ==
    \A b \in 1..Len(buildings) :
        buildings[b].type = "power_generator" =>
            \A f \in 1..Len(buildings[b].fuels) :
                /\ buildings[b].fuels[f].fuel.item \in ItemKeys
                /\ \A k \in 1..Len(items) :
                      items[k].key = buildings[b].fuels[f].fuel.item
                          => items[k].energy_mj # 0

\* A finished run whose biomass generator, given a spec naming the
\* energy-less Desc_Water_C, the biomass class (with a biomass item of no
\* energy parsed) and a spec naming Desc_Coal_C, holds no fuel of Desc_Water_C
\* or Desc_Mycelia_C.
C7_Witness ==
    /\ pc = "done"
    /\ err.type = "none"
    /\ "BiomassItems" \in {doc[i] : i \in 1..Len(doc)}
    /\ \E b \in 1..Len(buildings) :
          /\ buildings[b].key = <<"Desc_", "GeneratorBiomass_C">>
          /\ Len(buildings[b].fuels) = 3
          /\ buildings[b].fuels[1].fuel.item = "Desc_Leaves_C"

\* s holds the entries of t, each as often as t does.
IsPermutation(s, t) ==
    /\ Len(s) = Len(t)
    /\ \A m \in 1..Len(t) :
          Cardinality({k \in 1..Len(s) : s[k] = t[m]})
              = Cardinality({k \in 1..Len(t) : t[k] = t[m]})

\* C9: the sorts leave the items non-decreasing in (not resource, lower-cased
\* name), so that resources come before the other items, and the buildings
\* and the recipes non-decreasing in the lower-cased name; each sorted list
\* is a permutation of the list before the sort.
C9_SortedPermutations ==
    [][pc = "sort" =>
          /\ NonDecreasing([i \in 1..Len(items') |-> ResourceThenName(items'[i])])
          /\ \A a, b \in 1..Len(items') :
                a < b => items'[a].resource \/ ~items'[b].resource
          /\ NonDecreasing([i \in 1..Len(buildings') |-> LowerName(buildings'[i])])
          /\ NonDecreasing([i \in 1..Len(recipes') |-> LowerName(recipes'[i])])
          /\ IsPermutation(items', items)
          /\ IsPermutation(buildings', buildings)
          /\ IsPermutation(recipes', recipes)]_vars

\* A finished run in which each of the three sorts moved an entry whose
\* name differs in case from its neighbour's: coal before Nitrogen and Water,
\* then the ingot; the assembler before the Constructor; cable before Wire.
C9_Witness ==
    /\ pc = "done"
    /\ Len(items) = 4
    /\ items[1].key = "Desc_Coal_C"
    /\ ~items[4].resource
    /\ Len(buildings) = 2
    /\ buildings[1].key = <<"Desc_", "AssemblerMk1_C">>
    /\ Len(recipes) = 2
    /\ recipes[1].key = "Recipe_Alternate_Cable_C"

\* The state of the item with the given key.
StateOf(key) == items[CHOOSE k \in 1..Len(items) : items[k].key = key].state

\* parsed is the list parse_item_list is to return for the groups of field.
AmountsConverted(parsed, field) ==
    /\ Len(parsed) = Len(field)
    /\ \A k \in 1..Len(field) :
          LET raw == ParseInt(field[k].Amount)
          IN  /\ parsed[k].item = field[k].ItemClass[2]
              /\ StateOf(parsed[k].item) = "solid"
                    => parsed[k].amount.num = raw * parsed[k].amount.den
              /\ StateOf(parsed[k].item) \in {"liquid", "gas"}
                    => parsed[k].amount.num * 1000 = raw * parsed[k].amount.den

\* C10: for a recipe that passes the building checks, every group of the
\* ingredient and product fields yields, in order, its key with the raw
\* amount for a solid item and the raw amount / 1000 for a liquid or gas;
\* a key that is no item's key is a fatal error.
C10_ItemListAmounts ==
    [][RecipeParsed =>
          LET definition == Current.definition
              producers  == ProducersOf(definition)
              groups     == definition.mIngredients \o definition.mProduct
              unknown    == {k \in 1..Len(groups) :
                                groups[k].ItemClass[2] \notin ItemKeys}
          IN  Len(producers) = 1 /\ BuildingKnown(DescKey(producers[1])) =>
                 IF unknown = {}
                 THEN /\ Len(recipes') = Len(recipes) + 1
                      /\ AmountsConverted(recipes'[Len(recipes')].inputs,
                                          definition.mIngredients)
                      /\ AmountsConverted(recipes'[Len(recipes')].outputs,
                                          definition.mProduct)
                 ELSE /\ pc' = "failed"
                      /\ err' = [type |-> "ValueError", what |-> "item",
                                 key |-> groups[CHOOSE k \in unknown :
                                            \A m \in unknown : k <= m].ItemClass[2]]
                      /\ recipes' = recipes]_vars

\* A recipe is in the list with Desc_Water_C, Amount=2000 as the amount 2.0,
\* after a solid input, and another with a gas input of 500 as 0.5.
C10_Witness ==
    /\ \E r \in 1..Len(recipes) :
          /\ Len(recipes[r].inputs) = 2
          /\ recipes[r].inputs[1].item = "Desc_Coal_C"
          /\ recipes[r].inputs[1].amount = [num |-> 1, den |-> 1]
          /\ recipes[r].inputs[2].item = "Desc_Water_C"
          /\ recipes[r].inputs[2].amount.num = 2 * recipes[r].inputs[2].amount.den
    /\ \E r \in 1..Len(recipes) :
          /\ recipes[r].inputs[1].item = "Desc_NitrogenGas_C"
          /\ 2 * recipes[r].inputs[1].amount.num = recipes[r].inputs[1].amount.den

----------------------------------------------------------------------------
(* Biomass fan-out.                                                        *)

PowerGeneratorParsed == AtDefinitionOf(POWER_GENERATOR_CLASSES) /\ log' # log

\* The item definitions of the whole document, in parse order.
ItemDefinitions == PendingFrom(native_classes, 1, ITEM_CLASSES)

\* The keys of the item definitions tagged with the biomass class, of
\* positive energy and of a state other than liquid and gas, in parse order.
BiomassFuelKeys ==
    LET fanned == SelectSeq(ItemDefinitions,
                     LAMBDA d : /\ d.NativeClass = BIOMASS_CLASS
                                /\ d.definition.mEnergyValue > 0
                                /\ d.definition.mForm \notin {"RF_LIQUID", "RF_GAS"})
    IN  [k \in 1..Len(fanned) |-> fanned[k].definition.ClassName]

\* The energy of the first item with the given key.
EnergyOf(key) ==
    items[CHOOSE k \in 1..Len(items) :
             /\ items[k].key = key
             /\ \A m \in 1..(k - 1) : items[m].key # key].energy_mj

\* The fuel items a generator is to hold for its fuel specs from spec k on:
\* the biomass fuels in place of a spec naming the biomass class, the named
\* item for another spec unless that item has no energy.
RECURSIVE FuelKeysFor(_, _)
FuelKeysFor(specs, k) ==
    IF k > Len(specs) THEN <<>>
    ELSE (IF specs[k].mFuelClass = "FGItemDescriptorBiomass" THEN BiomassFuelKeys
          ELSE IF EnergyOf(specs[k].mFuelClass) = 0 THEN <<>>
          ELSE <<specs[k].mFuelClass>>)
         \o FuelKeysFor(specs, k + 1)

\* The fuel items of a generator's fuel list, in list order.
FuelItemsOf(building) ==
    [f \in 1..Len(building.fuels) |-> building.fuels[f].fuel.item]

\* C11: a generator parsed without error holds, for a fuel spec naming the
\* biomass class, one fuel entry per item of the document that is tagged
\* with the biomass class, has positive energy and is neither liquid nor gas,
\* in item parse order and at the position of that spec; the other entries
\* keep the order of the fuel specs, and no other item is fanned out.
C11_BiomassFanOut ==
    [][PowerGeneratorParsed /\ err'.type = "none" =>
          /\ Len(buildings') = Len(buildings) + 1
          /\ SubSeq(buildings', 1, Len(buildings)) = buildings
          /\ FuelItemsOf(buildings'[Len(buildings')])
                = FuelKeysFor(Current.definition.mFuel, 1)]_vars

\* The biomass generator was parsed from the specs Desc_Water_C, biomass
\* class, Desc_Coal_C with four biomass-tagged items parsed, of which
\* Desc_Mycelia_C has no energy and Desc_LiquidBiofuel_C is liquid: it holds
\* Desc_Leaves_C, Desc_Wood_C, Desc_Coal_C in that order.
C11_Witness ==
    /\ err.type = "none"
    /\ \E r \in 1..Len(doc) : doc[r] = "BiomassItems"
    /\ \E b \in 1..Len(buildings) :
          /\ buildings[b].key = <<"Desc_", "GeneratorBiomass_C">>
          /\ FuelItemsOf(buildings[b])
                = <<"Desc_Leaves_C", "Desc_Wood_C", "Desc_Coal_C">>

----------------------------------------------------------------------------
(* Allowed resources of extractors and wells.                              *)

ExtractorOrWellParsed ==
    /\ AtDefinitionOf(RESOURCE_EXTRACTOR_CLASSES \cup {RESOURCE_WELL_ACTIVATOR_CLASS})
    /\ log' # log

\* The keys of the document's item definitions tagged with the resource
\* class whose form code is among the record's allowed forms, in parse order.
ResourceKeysOfForms(definition) ==
    LET codes   == {definition.mAllowedResourceForms[k] :
                       k \in 1..Len(definition.mAllowedResourceForms)}
        allowed == SelectSeq(ItemDefinitions,
                      LAMBDA d : /\ d.NativeClass = RESOURCE_CLASS
                                 /\ d.definition.mForm \in codes)
    IN  [k \in 1..Len(allowed) |-> allowed[k].definition.ClassName]

\* The keys the record lists in mAllowedResources.
ListedResourceKeys(definition) ==
    [k \in 1..Len(definition.mAllowedResources) |->
        definition.mAllowedResources[k][2]]

\* C12: a resource extractor or resource well is appended with, when its
\* record does not restrict to certain resources, the keys of all
\* resource-tagged items of the whole document whose state is among the
\* record's allowed forms, wherever the record sits in the document; and when
\* it does restrict, the keys the record lists, whatever the items are.
C12_AllowedResources ==
    [][ExtractorOrWellParsed =>
          LET definition == Current.definition
          IN  /\ err'.type = "none"
              /\ Len(buildings') = Len(buildings) + 1
              /\ SubSeq(buildings', 1, Len(buildings)) = buildings
              /\ buildings'[Len(buildings')].allowed_resources
                    = IF definition.mOnlyAllowCertainResources = "True"
                      THEN ListedResourceKeys(definition)
                      ELSE ResourceKeysOfForms(definition)]_vars

\* The extractor record precedes the resource items in the document, which
\* also holds a solid item that is no resource: the miner allows Desc_Coal_C
\* alone, the restricted pump its listed Desc_LiquidOil_C, which is no item.
C12_Witness ==
    /\ \E i, j \in 1..Len(doc) :
          i < j /\ doc[i] = "Extractors" /\ doc[j] = "ResourceItems"
    /\ \E i \in 1..Len(doc) : doc[i] = "PlainItems"
    /\ \E k \in 1..Len(items) : items[k].key = "Desc_IronIngot_C"
    /\ \A k \in 1..Len(items) : items[k].key # "Desc_LiquidOil_C"
    /\ \E b \in 1..Len(buildings) :
          /\ buildings[b].key = <<"Desc_", "MinerMk1_C">>
          /\ buildings[b].allowed_resources = <<"Desc_Coal_C">>
    /\ \E b \in 1..Len(buildings) :
          /\ buildings[b].key = <<"Desc_", "OilPump_C">>
          /\ buildings[b].allowed_resources = <<"Desc_LiquidOil_C">>

====
